---- MODULE Spec2Model ----
(***************************************************************************)
(* Flip-to-6 multiplayer game server: the session state machine.           *)
(*                                                                         *)
(* The state is the content of the PostgreSQL tables of one room           *)
(* (card_types, rooms, room_players, draw_pile, discard_pile,              *)
(* player_hands, round_scores).  Every HTTP route and socket handler is    *)
(* one action that applies the handler's queries in program order.         *)
(***************************************************************************)
EXTENDS Integers, Sequences, FiniteSets, TLC

VARIABLES
    card_types,     \* table card_types: sequence of [value, count], ORDER BY value
    rooms,          \* table rooms: at most one row (the modelled room code)
    room_players,   \* table room_players: row i has player_id = i
    draw_pile,      \* table draw_pile ORDER BY position: sequence of values
    discard_pile,   \* table discard_pile ORDER BY position: sequence of values
    player_hands,   \* table player_hands: player_id -> values ORDER BY position
    round_scores,   \* table round_scores: sequence of rows in insertion order
    last,           \* the last command a handler completed, as the server saw it
    steps,          \* number of commands handled so far
    inflight,       \* handlers suspended at an await (overlapping commands)
    starter         \* history: the player who first held the turn in this round

vars == <<card_types, rooms, room_players, draw_pile, discard_pile,
          player_hands, round_scores, last, steps, inflight, starter>>

dbvars == <<rooms, room_players, draw_pile, discard_pile, player_hands, round_scores>>

(***************************************************************************)
(* Bounds of the model.                                                    *)
(***************************************************************************)
MaxPlayers == 3
MaxRounds == 3
MaxSteps == 7

(***************************************************************************)
(* SQL NULL for the INT columns (ids start at 1) and for the TEXT columns. *)
(***************************************************************************)
NoId == 0
NoText == "NULL"

PlayerIds == 1..MaxPlayers

(***************************************************************************)
(* Generic sequence helpers.                                               *)
(***************************************************************************)
Min(a, b) == IF a < b THEN a ELSE b

Range(s) == {s[i] : i \in 1..Len(s)}

RemoveAt(s, i) == SubSeq(s, 1, i - 1) \o SubSeq(s, i + 1, Len(s))

InsertAt(s, i, x) == SubSeq(s, 1, i - 1) \o <<x>> \o SubSeq(s, i, Len(s))

SwapAt(s, i, j) == [s EXCEPT ![i] = s[j], ![j] = s[i]]

Count(s, v) == Cardinality({i \in 1..Len(s) : s[i] = v})

FirstIndex(s, v) == CHOOSE i \in 1..Len(s) : s[i] = v /\ \A k \in 1..(i - 1) : s[k] # v

LastIndex(s, v) == CHOOSE i \in 1..Len(s) : s[i] = v /\ \A k \in (i + 1)..Len(s) : s[k] # v

RECURSIVE Repeat(_, _)
Repeat(v, n) == IF n <= 0 THEN <<>> ELSE <<v>> \o Repeat(v, n - 1)

RECURSIVE SumSeq(_)
SumSeq(s) == IF s = <<>> THEN 0 ELSE Head(s) + SumSeq(Tail(s))

(***************************************************************************)
(* Cards.                                                                  *)
(***************************************************************************)
NumberCards == {"0", "1", "2", "3", "4", "5", "6", "7", "8", "9", "10", "11", "12"}

\* isAction(value): TRUE if the card is not a number 0..12.
isAction(value) == value \notin NumberCards

scoring == {"2x", "4+", "5+", "6-"}

instant == {"Freeze", "Swap", "Take 3", "Take3"}

(***************************************************************************)
(* SECTION 3 - shuffling. Math.random() is a nondeterministic choice, so   *)
(* each shuffling function is the set of all results it can return.        *)
(***************************************************************************)

\* fisherYates(deck): an unbiased shuffle can return every arrangement.
RECURSIVE fisherYates(_)
fisherYates(deck) ==
    IF deck = <<>> THEN {<<>>}
    ELSE UNION { { <<v>> \o t : t \in fisherYates(RemoveAt(deck, FirstIndex(deck, v))) }
                 : v \in Range(deck) }

\* The scan of forceStreak from window `offset` on, for a chosen `start`.
\* Indices i, idx are the 0-based indices of the code; deck[k + 1] is deck[k].
RECURSIVE forceStreakScan(_, _, _, _)
forceStreakScan(deck, length, start, offset) ==
    LET windows == Len(deck) - length + 1
        i == (start + offset) % windows
        streak == \A j \in 1..(length - 1) : deck[i + 1] = deck[i + j + 1]
        found == {k \in (i + length)..(Len(deck) - 1) : deck[k + 1] = deck[i + 1]}
        idx == CHOOSE k \in found : \A m \in found : k <= m
    IN  IF offset >= windows THEN deck
        ELSE IF ~streak /\ found # {}
             THEN SwapAt(deck, i + length, idx + 1)
             ELSE forceStreakScan(deck, length, start, offset + 1)

\* forceStreak(deck, length): the decks it can leave behind (over `start`).
forceStreak(deck, length) ==
    LET windows == Len(deck) - length + 1
    IN  IF windows <= 0 THEN {deck}
        ELSE { forceStreakScan(deck, length, start, 0) : start \in 0..(windows - 1) }

\* streakLengths.forEach(len => forceStreak(numberCards, len))
RECURSIVE forceStreaks(_, _)
forceStreaks(decks, streakLengths) ==
    IF streakLengths = <<>> THEN decks
    ELSE forceStreaks(UNION { forceStreak(d, Head(streakLengths)) : d \in decks },
                      Tail(streakLengths))

\* makeZones(deckSize): four [minPos, maxPos] pairs; Math.floor(deckSize * 0.10) etc.
makeZones(deckSize) ==
    << <<(deckSize * 10) \div 100, (deckSize * 30) \div 100>>,
       <<(deckSize * 30) \div 100, (deckSize * 65) \div 100>>,
       <<(deckSize * 65) \div 100, (deckSize * 80) \div 100>>,
       <<(deckSize * 80) \div 100, deckSize - 1>> >>

\* result.splice(insertPos, 0, card) repeated for `count` cards from actionIndex.
RECURSIVE spliceBatch(_, _, _, _, _)
spliceBatch(result, actionCards, actionIndex, insertPos, count) ==
    IF count = 0 THEN result
    ELSE spliceBatch(InsertAt(result, insertPos + 1, actionCards[actionIndex + 1]),
                     actionCards, actionIndex + 1, insertPos, count - 1)

\* The loop of distributeActionsAdaptive from zone z on (0-based z, actionIndex).
RECURSIVE distributeFrom(_, _, _, _, _)
distributeFrom(result, actionCards, zones, z, actionIndex) ==
    IF z >= Len(zones) \/ actionIndex >= Len(actionCards) THEN {result}
    ELSE LET minPos == zones[z + 1][1]
             maxPos == zones[z + 1][2]
         IN  IF minPos >= maxPos
             THEN distributeFrom(result, actionCards, zones, z + 1, actionIndex)
             ELSE UNION { distributeFrom(
                              spliceBatch(result, actionCards, actionIndex, insertPos, count),
                              actionCards, zones, z + 1, actionIndex + count)
                          : <<count, insertPos>> \in
                              { Min(r, Len(actionCards) - actionIndex) : r \in 1..3 }
                              \X (minPos..maxPos) }

distributeActionsAdaptive(result, actionCards) ==
    distributeFrom(result, actionCards, makeZones(Len(result)), 0, 0)

\* actionCards.slice(0, 14)
ActionSliceEnd == 14

\* hybridShuffle(deck, streakLengths = [2, 3]): every deck it can return.
hybridShuffle(deck) ==
    LET numberCards == SelectSeq(deck, LAMBDA c : ~isAction(c))
        actionCards == SelectSeq(deck, isAction)
        numbers == forceStreaks(fisherYates(numberCards), <<2, 3>>)
        actionsToUse == { SubSeq(a, 1, Min(Len(a), ActionSliceEnd)) : a \in fisherYates(actionCards) }
    IN  UNION { distributeActionsAdaptive(n, a) : <<n, a>> \in numbers \X actionsToUse }

\* The template of ensureDeck: row.count copies of row.value for each card_types row.
RECURSIVE expandTypes(_)
expandTypes(types) ==
    IF types = <<>> THEN <<>>
    ELSE Repeat(Head(types).value, Head(types).count) \o expandTypes(Tail(types))

(***************************************************************************)
(* The database as one value, so that a handler is a composition of the    *)
(* functions of the program, each taking and returning the tables.         *)
(***************************************************************************)
DB ==
    [ rooms |-> rooms, room_players |-> room_players, draw_pile |-> draw_pile,
      discard_pile |-> discard_pile, player_hands |-> player_hands,
      round_scores |-> round_scores ]

\* "SELECT * FROM rooms WHERE code = $1": the row, when roomRes.rows.length > 0.
roomOf(db) == db.rooms[1]

\* "UPDATE rooms SET ... WHERE id = $1"
updateRoom(db, r) == [db EXCEPT !.rooms = <<r>>]

\* CREATE TABLE rooms: the columns of a row inserted by /api/player/join.
newRoom ==
    [ locked |-> FALSE, current_player_id |-> NoId, round_number |-> 1,
      round_over |-> FALSE, paused |-> FALSE, pending_action_type |-> NoText,
      pending_action_actor_id |-> NoId, pending_action_value |-> NoText,
      round_starter_id |-> NoId ]

\* The three pending_action_* columns set to NULL.
clearPending(db) ==
    updateRoom(db, [roomOf(db) EXCEPT !.pending_action_type = NoText,
                                      !.pending_action_actor_id = NoId,
                                      !.pending_action_value = NoText])

\* Rows of room_players WHERE active = TRUE ORDER BY order_index ASC. Rows are
\* never deleted and order_index is MAX(order_index) + 1, so row order is seat order.
activePlayers(db) == SelectSeq(db.room_players, LAMBDA p : p.active)

playerIdsOf(rows) == [i \in 1..Len(rows) |-> rows[i].player_id]

IndexOf(s, v) == IF v \in Range(s) THEN FirstIndex(s, v) - 1 ELSE -1

\* "UPDATE room_players SET ... WHERE player_id = $1 AND room_id = $2"
hasRow(db, playerId) == playerId \in 1..Len(db.room_players)

(***************************************************************************)
(* SECTION 3 (continued) - deck of a room.                                 *)
(***************************************************************************)
emptyHands == [p \in PlayerIds |-> <<>>]

\* ensureDeck(roomId): no-op when the draw pile has rows, else a fresh shuffled
\* deck, with the discard pile and all hands deleted.
ensureDeck(db) ==
    IF Len(db.draw_pile) > 0 THEN {db}
    ELSE { [db EXCEPT !.draw_pile = deck, !.discard_pile = <<>>, !.player_hands = emptyHands]
           : deck \in hybridShuffle(expandTypes(card_types)) }

\* popTopCard(roomId): the outcomes [db, value, threw]. value = NoText is the
\* `return null`; threw is the TypeError on res.rows[0] of an empty reshuffle.
popTopCard(db) ==
    IF Len(db.draw_pile) > 0
    THEN { [db |-> [db EXCEPT !.draw_pile = Tail(db.draw_pile)],
            value |-> Head(db.draw_pile), threw |-> FALSE] }
    ELSE IF Len(db.discard_pile) = 0
    THEN { [db |-> db, value |-> NoText, threw |-> FALSE] }
    ELSE { IF Len(deck) = 0
           THEN [db |-> [db EXCEPT !.discard_pile = <<>>, !.draw_pile = <<>>],
                 value |-> NoText, threw |-> TRUE]
           ELSE [db |-> [db EXCEPT !.discard_pile = <<>>, !.draw_pile = Tail(deck)],
                 value |-> Head(deck), threw |-> FALSE]
           : deck \in hybridShuffle(db.discard_pile) }

(***************************************************************************)
(* SECTION 4 - hand / discard helpers.                                     *)
(***************************************************************************)
addToHand(db, playerId, value) ==
    [db EXCEPT !.player_hands[playerId] = Append(@, value)]

\* removeFromHand: one instance, latest position first; nothing when absent.
removeFromHand(db, playerId, value) ==
    IF value \in Range(db.player_hands[playerId])
    THEN [db EXCEPT !.player_hands[playerId] = RemoveAt(@, LastIndex(@, value))]
    ELSE db

addToDiscard(db, value) == [db EXCEPT !.discard_pile = Append(@, value)]

playerHasSecondChance(db, playerId) == "Second Chance" \in Range(db.player_hands[playerId])

(***************************************************************************)
(* SECTION 5 - pause / reconnect.                                          *)
(***************************************************************************)
recomputePause(db) ==
    LET anyDisconnected == \E i \in 1..Len(db.room_players) :
                               db.room_players[i].active /\ ~db.room_players[i].connected
    IN  updateRoom(db, [roomOf(db) EXCEPT !.paused = anyDisconnected])

(***************************************************************************)
(* SECTION 6 - turn order.                                                 *)
(***************************************************************************)
advanceTurn(db, forceCurrent) ==
    LET room == roomOf(db)
        candidates == SelectSeq(activePlayers(db), LAMBDA p : ~p.stayed /\ ~p.round_bust)
        players == playerIdsOf(candidates)
        currentIdx == IndexOf(players, room.current_player_id)
        nextIndex == (currentIdx + 1) % Len(players)
    IN  IF forceCurrent /\ room.current_player_id # NoId THEN db
        ELSE IF Len(players) = 0
        THEN updateRoom(db, [room EXCEPT !.round_over = TRUE, !.current_player_id = NoId])
        ELSE IF room.current_player_id = NoId
        THEN updateRoom(db, [room EXCEPT !.current_player_id = players[1]])
        ELSE IF currentIdx = -1
        THEN updateRoom(db, [room EXCEPT !.current_player_id = players[1]])
        ELSE updateRoom(db, [room EXCEPT !.current_player_id = players[nextIndex + 1]])

(***************************************************************************)
(* SECTION 7 - scoring and next round.                                     *)
(***************************************************************************)
NaN == -1000

\* parseInt(v, 10): the leading decimal digits of v, NaN when there are none.
parseInt(v) ==
    CASE v = "0" -> 0 [] v = "1" -> 1 [] v = "2" -> 2 [] v = "3" -> 3 [] v = "4" -> 4
      [] v = "5" -> 5 [] v = "6" -> 6 [] v = "7" -> 7 [] v = "8" -> 8 [] v = "9" -> 9
      [] v = "10" -> 10 [] v = "11" -> 11 [] v = "12" -> 12
      [] v = "2x" -> 2 [] v = "4+" -> 4 [] v = "5+" -> 5 [] v = "6-" -> 6
      [] OTHER -> NaN

\* The loop of computeScore over the hand, carrying (score, mult).
RECURSIVE scoreLoop(_, _, _)
scoreLoop(hand, score, mult) ==
    IF hand = <<>> THEN score * mult
    ELSE LET v == Head(hand)
             num == parseInt(v)
         IN  IF num # NaN THEN scoreLoop(Tail(hand), score + num, mult)
             ELSE scoreLoop(Tail(hand),
                            score + (IF v = "4+" THEN 4 ELSE 0) + (IF v = "5+" THEN 5 ELSE 0)
                                  - (IF v = "6-" THEN 6 ELSE 0),
                            IF v = "2x" THEN mult * 2 ELSE mult)

computeScore(db, playerId) == scoreLoop(db.player_hands[playerId], 0, 1)

getNextStartingPlayer(db) ==
    LET lastStarterId == roomOf(db).round_starter_id
        players == playerIdsOf(activePlayers(db))
        index == IndexOf(players, lastStarterId)
    IN  IF Len(players) = 0 THEN NoId
        ELSE IF lastStarterId = NoId THEN players[1]
        ELSE IF index = -1 THEN players[1]
        ELSE players[((index + 1) % Len(players)) + 1]

BonusCards == 6
Bonus == 15

roundScoreIgnoringBust(db, p) ==
    computeScore(db, p.player_id)
    + (IF Len(db.player_hands[p.player_id]) >= BonusCards THEN Bonus ELSE 0)

\* The score endRound writes for one active player row.
roundScoreOf(db, p) ==
    IF p.round_bust THEN 0
    ELSE computeScore(db, p.player_id)
         + (IF Len(db.player_hands[p.player_id]) >= BonusCards THEN Bonus ELSE 0)

\* A variant of scorePlayers that writes the score rows and leaves total_score.
RECURSIVE scorePlayersForgettingTotal(_, _, _)
scorePlayersForgettingTotal(db, rows, round) ==
    IF rows = <<>> THEN db
    ELSE LET p == Head(rows)
             pid == p.player_id
             score == roundScoreOf(db, p)
         IN  scorePlayersForgettingTotal(
                 [db EXCEPT
                    !.round_scores = Append(@, [player_id |-> pid, round_number |-> round,
                                                score |-> score]),
                    !.discard_pile = @ \o db.player_hands[pid]],
                 Tail(rows), round)

\* The for-loop of endRound over the active players: score row, total, discards.
RECURSIVE scorePlayers(_, _, _)
scorePlayers(db, rows, round) ==
    IF rows = <<>> THEN db
    ELSE LET p == Head(rows)
             pid == p.player_id
             score == roundScoreOf(db, p)
         IN  scorePlayers(
                 [db EXCEPT
                    !.round_scores = Append(@, [player_id |-> pid, round_number |-> round,
                                                score |-> score]),
                    !.room_players[pid].total_score = @ + score,
                    !.discard_pile = @ \o db.player_hands[pid]],
                 Tail(rows), round)

\* A variant of endRound that leaves the stayed and round_bust flags as they are.
endRoundKeepingFlags(db) ==
    LET round == roomOf(db).round_number
        scored == scorePlayers(db, activePlayers(db), round)
        reset == [scored EXCEPT !.player_hands = emptyHands]
        next == clearPending(updateRoom(reset,
                    [roomOf(reset) EXCEPT !.round_number = @ + 1, !.round_over = FALSE]))
    IN  { LET nextStarter == getNextStartingPlayer(d)
          IN  advanceTurn(updateRoom(d, [roomOf(d) EXCEPT
                              !.current_player_id = nextStarter,
                              !.round_starter_id = nextStarter]), TRUE)
          : d \in ensureDeck(next) }

endRound(db) ==
    LET round == roomOf(db).round_number
        scored == scorePlayers(db, activePlayers(db), round)
        reset == [scored EXCEPT
                    !.player_hands = emptyHands,
                    !.room_players = [i \in 1..Len(@) |->
                                        [@[i] EXCEPT !.stayed = FALSE, !.round_bust = FALSE]]]
        next == clearPending(updateRoom(reset,
                    [roomOf(reset) EXCEPT !.round_number = @ + 1, !.round_over = FALSE]))
    IN  { LET nextStarter == getNextStartingPlayer(d)
          IN  advanceTurn(updateRoom(d, [roomOf(d) EXCEPT
                              !.current_player_id = nextStarter,
                              !.round_starter_id = nextStarter]), TRUE)
          : d \in ensureDeck(next) }

(***************************************************************************)
(* SECTION 8 - the snapshot getState(roomId) and the turn test of handlers.*)
(***************************************************************************)
isMyTurnIgnoringPending(db, playerId) ==
    /\ roomOf(db).current_player_id = playerId
    /\ ~roomOf(db).round_over
    /\ ~roomOf(db).paused

isMyTurn(db, playerId) ==
    /\ roomOf(db).current_player_id = playerId
    /\ ~roomOf(db).round_over
    /\ ~roomOf(db).paused
    /\ roomOf(db).pending_action_type = NoText

(***************************************************************************)
(* SECTION 9 - drawCardForPlayer(room, playerId).                          *)
(***************************************************************************)
setPending(db, type, actor, value) ==
    updateRoom(db, [roomOf(db) EXCEPT !.pending_action_type = type,
                                      !.pending_action_actor_id = actor,
                                      !.pending_action_value = value])

actionTypeOf(value) ==
    IF value = "Freeze" THEN "Freeze" ELSE IF value = "Swap" THEN "Swap" ELSE "Take3"

\* What drawCardForPlayer does with the popped card `value`.
placeCard(db, playerId, value) ==
    IF ~isAction(value)
    THEN LET held == addToHand(db, playerId, value)
             isTrueDuplicate == Count(held.player_hands[playerId], value) > 1
         IN  IF ~isTrueDuplicate THEN held
             ELSE IF playerHasSecondChance(held, playerId)
             THEN setPending(held, "SecondChancePrompt", playerId, value)
             ELSE IF hasRow(held, playerId)
             THEN [held EXCEPT !.room_players[playerId].stayed = TRUE,
                               !.room_players[playerId].round_bust = TRUE]
             ELSE held
    ELSE IF value \in scoring THEN addToHand(db, playerId, value)
    ELSE IF value = "Second Chance" THEN addToHand(db, playerId, value)
    ELSE IF value \in instant
    THEN setPending(addToHand(db, playerId, value), actionTypeOf(value), playerId, value)
    ELSE addToDiscard(db, value)

\* A variant of drawOutcomes that does not lock the room.
drawOutcomesWithoutLock(db, playerId) ==
    IF roomOf(db).pending_action_type # NoText THEN { [db |-> db, value |-> NoText] }
    ELSE UNION {
           { [db |-> IF r.value = NoText THEN r.db ELSE placeCard(r.db, playerId, r.value),
              value |-> r.value]
             : r \in popTopCard(d) }
           : d \in ensureDeck(db) }

\* The runs of drawCardForPlayer: the tables it leaves and the card it popped
\* (NoText when it returned before popping a card).
drawOutcomes(db, playerId) ==
    IF roomOf(db).pending_action_type # NoText THEN { [db |-> db, value |-> NoText] }
    ELSE UNION {
           { [db |-> IF r.value = NoText THEN r.db ELSE placeCard(r.db, playerId, r.value),
              value |-> r.value]
             : r \in popTopCard(updateRoom(d, [roomOf(d) EXCEPT !.locked = TRUE])) }
           : d \in ensureDeck(db) }

drawCardForPlayer(db, playerId) == { o.db : o \in drawOutcomes(db, playerId) }

(***************************************************************************)
(* Commands. `last` records the command a handler has just completed:      *)
(* ok = FALSE when the handler returned at one of its guards.              *)
(***************************************************************************)
Cmd(op, pid, arg, tgt, ok) == [op |-> op, pid |-> pid, arg |-> arg, tgt |-> tgt, ok |-> ok]

Rejected(op) == Cmd(op, NoId, NoText, NoId, FALSE)

\* The first holder of the turn pointer in the round of tables `db`, knowing
\* the one recorded so far: a new round starts with a new round_number.
starterAfter(db) ==
    IF Len(db.rooms) = 0 THEN NoId
    ELSE IF Len(rooms) > 0 /\ db.rooms[1].round_number # rooms[1].round_number
    THEN db.rooms[1].current_player_id
    ELSE IF starter = NoId THEN db.rooms[1].current_player_id
    ELSE starter

Install(db) ==
    /\ rooms' = db.rooms
    /\ room_players' = db.room_players
    /\ draw_pile' = db.draw_pile
    /\ discard_pile' = db.discard_pile
    /\ player_hands' = db.player_hands
    /\ round_scores' = db.round_scores
    /\ starter' = starterAfter(db)

Reject(op) == UNCHANGED <<dbvars, starter>> /\ last' = Rejected(op)

\* One more command handled; the model stops after MaxSteps commands.
Handled == steps < MaxSteps /\ steps' = steps + 1 /\ UNCHANGED <<card_types, inflight>>

roomExists == Len(rooms) > 0

\* The names clients type, and LOWER(name) of PostgreSQL on them.
People == <<"ann", "bob", "cy">>

\* The names a client may type now: people arrive in the order of People, and
\* "ANN" is ann signing in again in capitals.
NameInputs ==
    {People[i] : i \in 1..Min(Len(room_players) + 1, Len(People))}
    \cup (IF \E i \in 1..Len(room_players) : room_players[i].name = "ann" THEN {"ANN"} ELSE {})

\* The sockets that may send joinRoom for a player: the player's own device,
\* and a second device while the first is signed in.
OtherDevice == MaxPlayers + 1

SocketsFor(playerId) ==
    {playerId} \cup (IF playerId \in 1..Len(room_players) /\ room_players[playerId].connected
                     THEN {OtherDevice} ELSE {})

Lower(name) == IF name = "ANN" THEN "ann" ELSE name

Actions == {"Freeze", "Swap", "Take3"}

(***************************************************************************)
(* SECTION 10 - POST /api/player/join.                                     *)
(***************************************************************************)
\* A variant of newPlayer that numbers the seat after the active players only.
newPlayerCountingActive(db, name) ==
    [ player_id |-> Len(db.room_players) + 1, name |-> name,
      order_index |-> Len(activePlayers(db)), active |-> TRUE, stayed |-> FALSE,
      total_score |-> 0, socket_id |-> NoId, connected |-> FALSE, round_bust |-> FALSE ]

newPlayer(db, name) ==
    [ player_id |-> Len(db.room_players) + 1, name |-> name,
      order_index |-> Len(db.room_players), active |-> TRUE, stayed |-> FALSE,
      total_score |-> 0, socket_id |-> NoId, connected |-> FALSE, round_bust |-> FALSE ]

\* A variant of PlayerJoin that adds a new player to a locked room too.
PlayerJoinIgnoringLock(name) ==
    LET db == IF roomExists THEN DB ELSE [DB EXCEPT !.rooms = <<newRoom>>]
        dup == SelectSeq(db.room_players, LAMBDA p : Lower(p.name) = Lower(name) /\ p.active)
    IN  /\ Handled
        /\ IF Len(dup) > 0
           THEN /\ Install(db)
                /\ last' = IF dup[1].connected THEN Rejected("join")
                           ELSE Cmd("join", dup[1].player_id, name, NoId, TRUE)
           ELSE /\ Len(db.room_players) < MaxPlayers
                /\ Install([db EXCEPT !.room_players = Append(@, newPlayer(db, name))])
                /\ last' = Cmd("join", Len(db.room_players) + 1, name, NoId, TRUE)

PlayerJoin(name) ==
    LET db == IF roomExists THEN DB ELSE [DB EXCEPT !.rooms = <<newRoom>>]
        dup == SelectSeq(db.room_players, LAMBDA p : Lower(p.name) = Lower(name) /\ p.active)
    IN  /\ Handled
        /\ IF Len(dup) > 0
           THEN /\ Install(db)
                /\ last' = IF dup[1].connected THEN Rejected("join")
                           ELSE Cmd("join", dup[1].player_id, name, NoId, TRUE)
           ELSE IF roomOf(db).locked
           THEN Install(db) /\ last' = Rejected("join")
           ELSE /\ Len(db.room_players) < MaxPlayers
                /\ Install([db EXCEPT !.room_players = Append(@, newPlayer(db, name))])
                /\ last' = Cmd("join", Len(db.room_players) + 1, name, NoId, TRUE)

(***************************************************************************)
(* SECTION 11 - socket handlers.                                           *)
(***************************************************************************)
joinRoomHandler(db, socket, playerId) ==
    LET joined == recomputePause(
                      [db EXCEPT !.room_players[playerId].socket_id = socket,
                                 !.room_players[playerId].connected = TRUE])
    IN  IF roomOf(joined).current_player_id = NoId /\ ~roomOf(joined).round_over
        THEN advanceTurn(joined, FALSE)
        ELSE joined

JoinRoom(socket, playerId) ==
    /\ Handled
    /\ IF \/ ~roomExists
          \/ ~hasRow(DB, playerId)
          \/ ~room_players[playerId].active
          \/ /\ room_players[playerId].connected
             /\ room_players[playerId].socket_id # NoId
             /\ room_players[playerId].socket_id # socket
       THEN Reject("joinRoom")
       ELSE /\ Install(joinRoomHandler(DB, socket, playerId))
            /\ last' = Cmd("joinRoom", playerId, NoText, socket, TRUE)

DrawCard(playerId) ==
    /\ Handled
    /\ IF ~roomExists \/ ~isMyTurn(DB, playerId)
       THEN Reject("drawCard")
       ELSE \E o \in drawOutcomes(DB, playerId) :
                /\ Install(o.db)
                /\ last' = Cmd("drawCard", playerId, o.value, NoId, TRUE)

\* A variant of stayHandler that marks the player and leaves the turn where it is.
stayWithoutAdvance(db, playerId) ==
    [clearPending(db) EXCEPT !.room_players[playerId].stayed = TRUE]

stayHandler(db, playerId) ==
    advanceTurn([clearPending(db) EXCEPT !.room_players[playerId].stayed = TRUE], FALSE)

Stay(playerId) ==
    /\ Handled
    /\ IF ~roomExists \/ ~isMyTurn(DB, playerId)
       THEN Reject("stay")
       ELSE /\ Install(stayHandler(DB, playerId))
            /\ last' = Cmd("stay", playerId, NoText, NoId, TRUE)

passHandler(db) == advanceTurn(clearPending(db), FALSE)

Pass(playerId) ==
    /\ Handled
    /\ IF ~roomExists \/ ~isMyTurn(DB, playerId)
       THEN Reject("pass")
       ELSE /\ Install(passHandler(DB))
            /\ last' = Cmd("pass", playerId, NoText, NoId, TRUE)

EndRound ==
    /\ Handled
    /\ IF ~roomExists \/ ~roomOf(DB).round_over
       THEN Reject("endRound")
       ELSE /\ roomOf(DB).round_number < MaxRounds
            /\ \E db \in endRound(DB) :
                   /\ Install(db)
                   /\ last' = Cmd("endRound", NoId, NoText, NoId, TRUE)

\* for (let i = 0; i < 3; i++) await drawCardForPlayer(room, targetId)
RECURSIVE drawTimes(_, _, _)
drawTimes(dbs, targetId, n) ==
    IF n = 0 THEN dbs
    ELSE drawTimes(UNION { drawCardForPlayer(d, targetId) : d \in dbs }, targetId, n - 1)

swapHands(db, playerId, targetId) ==
    [db EXCEPT !.player_hands[playerId] = db.player_hands[targetId],
               !.player_hands[targetId] = db.player_hands[playerId]]

\* A variant of actionTargetHandler whose Freeze spares a target holding no card.
actionTargetSparingEmptyHands(db, playerId, action, targetId) ==
    LET value == roomOf(db).pending_action_value
        frozen == IF action = "Freeze" /\ hasRow(db, targetId)
                     /\ Len(db.player_hands[targetId]) > 0
                  THEN [db EXCEPT !.room_players[targetId].stayed = TRUE]
                  ELSE db
        swapped == IF action = "Swap" THEN swapHands(frozen, playerId, targetId) ELSE frozen
        taken == IF action = "Take3" THEN drawTimes({swapped}, targetId, 3) ELSE {swapped}
    IN  { clearPending(addToDiscard(removeFromHand(d, playerId, value), value)) : d \in taken }

actionTargetHandler(db, playerId, action, targetId) ==
    LET value == roomOf(db).pending_action_value
        frozen == IF action = "Freeze" /\ hasRow(db, targetId)
                  THEN [db EXCEPT !.room_players[targetId].stayed = TRUE]
                  ELSE db
        swapped == IF action = "Swap" THEN swapHands(frozen, playerId, targetId) ELSE frozen
        taken == IF action = "Take3" THEN drawTimes({swapped}, targetId, 3) ELSE {swapped}
    IN  { clearPending(addToDiscard(removeFromHand(d, playerId, value), value)) : d \in taken }

ActionTarget(playerId, action, targetId) ==
    /\ Handled
    /\ IF \/ ~roomExists
          \/ roomOf(DB).pending_action_type = NoText
          \/ roomOf(DB).pending_action_actor_id # playerId
       THEN Reject("actionTarget")
       ELSE \E db \in actionTargetHandler(DB, playerId, action, targetId) :
                /\ Install(db)
                /\ last' = Cmd("actionTarget", playerId, action, targetId, TRUE)

removePlayerHandler(db, name) ==
    [db EXCEPT !.room_players =
        [i \in 1..Len(@) |-> IF Lower(@[i].name) = Lower(name)
                             THEN [@[i] EXCEPT !.active = FALSE] ELSE @[i]]]

RemovePlayer(name) ==
    /\ Handled
    /\ IF ~roomExists
       THEN Reject("removePlayer")
       ELSE /\ Install(removePlayerHandler(DB, name))
            /\ last' = Cmd("removePlayer", NoId, name, NoId, TRUE)

\* addToDiscard(room.id, NULL) violates NOT NULL of discard_pile.value: the
\* handler throws there, after both removeFromHand calls, and the catch logs it.
secondChanceHandler(db, playerId, use) ==
    LET dupValue == roomOf(db).pending_action_value
        removed == removeFromHand(
                       IF dupValue = NoText THEN db ELSE removeFromHand(db, playerId, dupValue),
                       playerId, "Second Chance")
    IN  IF ~use
        THEN clearPending(IF hasRow(db, playerId)
                          THEN [db EXCEPT !.room_players[playerId].stayed = TRUE,
                                          !.room_players[playerId].round_bust = TRUE]
                          ELSE db)
        ELSE IF dupValue = NoText THEN removed
        ELSE clearPending(addToDiscard(addToDiscard(removed, dupValue), "Second Chance"))

SecondChanceResponse(playerId, use) ==
    /\ Handled
    /\ IF ~roomExists
       THEN Reject("secondChanceResponse")
       ELSE /\ Install(secondChanceHandler(DB, playerId, use))
            /\ last' = Cmd("secondChanceResponse", playerId,
                           IF use THEN "use" ELSE "decline", NoId, TRUE)

disconnectHandler(db, socket) ==
    LET cleared == [db EXCEPT !.room_players =
                       [i \in 1..Len(@) |-> IF @[i].socket_id = socket
                                            THEN [@[i] EXCEPT !.connected = FALSE,
                                                              !.socket_id = NoId]
                                            ELSE @[i]]]
    IN  IF \E i \in 1..Len(db.room_players) : db.room_players[i].socket_id = socket
        THEN recomputePause(cleared)
        ELSE db

Disconnect(socket) ==
    /\ Handled
    /\ Install(disconnectHandler(DB, socket))
    /\ last' = Cmd("disconnect", NoId, NoText, socket, TRUE)

(***************************************************************************)
(* The session: an empty database, the card catalogue seeded by            *)
(* /api/init-deck, and the commands arriving one at a time.                *)
(***************************************************************************)
Card(value, count) == [value |-> value, count |-> count]

\* Catalogues a session is played with: two number cards and the special cards
\* of one kind (rows in ORDER BY value order).
Catalogues ==
    { << Card("5", 2), Card("Second Chance", 1) >>,
      << Card("5", 2), Card("Freeze", 1) >>,
      << Card("5", 2), Card("Swap", 1) >>,
      << Card("5", 2), Card("Take 3", 1) >>,
      << Card("2x", 1), Card("5", 2) >>,
      << Card("5", 2), Card("Freeze", 1), Card("Swap", 1) >> }

Init ==
    /\ card_types \in Catalogues
    /\ rooms = <<>>
    /\ room_players = <<>>
    /\ draw_pile = <<>>
    /\ discard_pile = <<>>
    /\ player_hands = emptyHands
    /\ round_scores = <<>>
    /\ last = Cmd("start", NoId, NoText, NoId, TRUE)
    /\ steps = 0
    /\ inflight = <<>>
    /\ starter = NoId

Next ==
    \/ \E name \in NameInputs : PlayerJoin(name)
    \/ \E playerId \in PlayerIds : \E socket \in SocketsFor(playerId) : JoinRoom(socket, playerId)
    \/ \E playerId \in PlayerIds : DrawCard(playerId)
    \/ \E playerId \in PlayerIds : Stay(playerId)
    \/ \E playerId \in PlayerIds : Pass(playerId)
    \/ EndRound
    \/ \E playerId \in PlayerIds, action \in Actions, targetId \in PlayerIds :
           ActionTarget(playerId, action, targetId)
    \/ \E name \in NameInputs : RemovePlayer(name)
    \/ \E playerId \in PlayerIds, use \in BOOLEAN : SecondChanceResponse(playerId, use)
    \/ \E socket \in PlayerIds : Disconnect(socket)

Spec == Init /\ [][Next]_vars

(***************************************************************************)
(* The deck engine alone: ensureDeck applied to an empty draw pile, for    *)
(* catalogues with more cards of each class than a session is played with. *)
(***************************************************************************)
DeckCatalogues ==
    Catalogues \cup
    { << Card("5", 2), Card("7", 1), Card("Freeze", 1), Card("Second Chance", 1) >>,
      << Card("3", 3), Card("4", 1), Card("Swap", 1) >>,
      << Card("4+", 2), Card("5", 1), Card("6", 1), Card("7", 1), Card("8", 1), Card("Take 3", 2) >>,
      << Card("5", 2), Card("Freeze", 15) >>,
      << Card("Freeze", 1), Card("Swap", 1) >> }

EnsureDeckStep ==
    /\ steps < MaxSteps
    /\ Len(draw_pile) = 0
    /\ \E db \in ensureDeck(DB) : Install(db)
    /\ last' = Cmd("ensureDeck", NoId, NoText, NoId, TRUE)
    /\ steps' = steps + 1
    /\ UNCHANGED <<card_types, inflight>>

DeckInit ==
    /\ card_types \in DeckCatalogues
    /\ rooms = <<newRoom>>
    /\ room_players = <<>>
    /\ draw_pile = <<>>
    /\ discard_pile = <<>>
    /\ player_hands = emptyHands
    /\ round_scores = <<>>
    /\ last = Cmd("start", NoId, NoText, NoId, TRUE)
    /\ steps = 0
    /\ inflight = <<>>
    /\ starter = NoId

DeckNext == EnsureDeckStep

SpecDeck == DeckInit /\ [][DeckNext]_vars

(***************************************************************************)
(* Overlapping commands. A socket handler is an async function: it runs    *)
(* until an await and other handlers run in between. Two commands are      *)
(* followed through their handlers, cut at the awaits that separate the    *)
(* turn test from the writes, and the SELECT of the top card from its      *)
(* DELETE. inflight.base is the database before the two commands.          *)
(***************************************************************************)
MaxInflight == 2

TurnCommands == {"drawCard", "stay", "pass"}

\* The fresh lobby: the first people have joined and signed in, in this order.
RECURSIVE lobbyOf(_, _, _)
lobbyOf(db, names, k) ==
    IF k > Len(names) THEN db
    ELSE lobbyOf(joinRoomHandler([db EXCEPT !.room_players = Append(@, newPlayer(db, names[k]))],
                                 k, k),
                 names, k + 1)

emptyDB ==
    [ rooms |-> <<newRoom>>, room_players |-> <<>>, draw_pile |-> <<>>,
      discard_pile |-> <<>>, player_hands |-> emptyHands, round_scores |-> <<>> ]

ConcInit ==
    /\ card_types \in Catalogues
    /\ \E n \in 1..Len(People) :
          LET db == lobbyOf(emptyDB, SubSeq(People, 1, n), 1)
          IN  /\ rooms = db.rooms
              /\ room_players = db.room_players
              /\ draw_pile = db.draw_pile
              /\ discard_pile = db.discard_pile
              /\ player_hands = db.player_hands
              /\ round_scores = db.round_scores
              /\ inflight = [base |-> db, hs |-> <<>>]
              /\ starter = roomOf(db).current_player_id
    /\ last = Cmd("start", NoId, NoText, NoId, TRUE)
    /\ steps = 0

\* A command arrives: its handler starts, in front of its first await.
Begin(op, playerId) ==
    /\ Len(inflight.hs) < MaxInflight
    /\ inflight' = [inflight EXCEPT !.hs = Append(@,
                       [op |-> op, pid |-> playerId, pc |-> "check",
                        row |-> 0, value |-> NoText])]
    /\ UNCHANGED <<dbvars, card_types, last, steps, starter>>

SetPc(i, pc) == inflight' = [inflight EXCEPT !.hs[i].pc = pc]

Finish(i, ok) ==
    /\ SetPc(i, "done")
    /\ last' = Cmd(inflight.hs[i].op, inflight.hs[i].pid, inflight.hs[i].value, NoId, ok)

\* const state = await getState(room.id); if (!isMyTurn) return;
HandlerCheck(i) ==
    LET h == inflight.hs[i]
    IN  /\ h.pc = "check"
        /\ UNCHANGED <<dbvars, card_types, steps, starter>>
        /\ IF isMyTurn(DB, h.pid)
           THEN SetPc(i, IF h.op = "drawCard" THEN "fetch" ELSE "apply") /\ UNCHANGED last
           ELSE Finish(i, FALSE)

\* drawCardForPlayer up to the SELECT of popTopCard: the top row is read, not
\* yet deleted. `row` is the row's place counted from the bottom of the pile.
HandlerFetch(i) ==
    LET h == inflight.hs[i]
    IN  /\ h.pc = "fetch"
        /\ UNCHANGED <<card_types, steps>>
        /\ IF roomOf(DB).pending_action_type # NoText
           THEN UNCHANGED <<dbvars, starter>> /\ Finish(i, TRUE)
           ELSE \E d \in ensureDeck(DB) :
                  LET locked == updateRoom(d, [roomOf(d) EXCEPT !.locked = TRUE])
                  IN  IF Len(locked.draw_pile) = 0
                      THEN \E r \in popTopCard(locked) :
                              /\ Install(IF r.value = NoText THEN r.db
                                         ELSE placeCard(r.db, h.pid, r.value))
                              /\ Finish(i, TRUE)
                      ELSE /\ Install(locked)
                           /\ inflight' = [inflight EXCEPT
                                  !.hs[i].pc = "place",
                                  !.hs[i].row = Len(locked.draw_pile),
                                  !.hs[i].value = Head(locked.draw_pile)]
                           /\ UNCHANGED last

\* "DELETE FROM draw_pile WHERE id = $1" of the row read, then the rest of
\* drawCardForPlayer with the value read.
HandlerPlace(i) ==
    LET h == inflight.hs[i]
        deleted == IF Len(draw_pile) >= h.row
                   THEN [DB EXCEPT !.draw_pile = RemoveAt(@, Len(@) - h.row + 1)]
                   ELSE DB
    IN  /\ h.pc = "place"
        /\ UNCHANGED <<card_types, steps>>
        /\ Install(placeCard(deleted, h.pid, h.value))
        /\ Finish(i, TRUE)

\* The writes of the stay and pass handlers after the turn test.
HandlerApply(i) ==
    LET h == inflight.hs[i]
    IN  /\ h.pc = "apply"
        /\ UNCHANGED <<card_types, steps>>
        /\ Install(IF h.op = "stay" THEN stayHandler(DB, h.pid) ELSE passHandler(DB))
        /\ Finish(i, TRUE)

ConcNext ==
    \/ \E op \in TurnCommands, playerId \in PlayerIds : Begin(op, playerId)
    \/ \E i \in 1..Len(inflight.hs) : HandlerCheck(i)
    \/ \E i \in 1..Len(inflight.hs) : HandlerFetch(i)
    \/ \E i \in 1..Len(inflight.hs) : HandlerPlace(i)
    \/ \E i \in 1..Len(inflight.hs) : HandlerApply(i)

SpecConc == ConcInit /\ [][ConcNext]_vars

(***************************************************************************)
(* Vocabulary of the properties.                                           *)
(***************************************************************************)
room == roomOf(DB)

pendingRecorded == roomExists /\ room.pending_action_type # NoText

\* The cards of a sequence as a multiset: value -> number of copies.
CardValues == NumberCards \cup scoring \cup instant \cup {"Second Chance"}

BagOf(s) == [v \in CardValues |-> Count(s, v)]

RECURSIVE HandCards(_)
HandCards(n) == IF n = 0 THEN 0 ELSE Len(player_hands[n]) + HandCards(n - 1)

CardsInPlay == Len(draw_pile) + Len(discard_pile) + HandCards(MaxPlayers)

TemplateCount == Len(expandTypes(card_types))

\* A player row that may hold the turn.
Eligible(rows, pid) ==
    pid \in 1..Len(rows) /\ rows[pid].active /\ ~rows[pid].stayed /\ ~rows[pid].round_bust

\* The first eligible seat found scanning the seat order from the seat after
\* `cur`, wrapping around and trying `cur` last; NoId when there is none.
NextInSeatOrder(rows, cur) ==
    LET n == Len(rows)
        seat(k) == ((cur - 1 + k) % n) + 1
        hits == {k \in 1..n : Eligible(rows, seat(k))}
    IN  IF hits = {} THEN NoId
        ELSE seat(CHOOSE k \in hits : \A m \in hits : k <= m)

\* The step is the handling of one command `op` (accepted or not).
Handles(ops) == steps' = steps + 1 /\ last'.op \in ops

Accepts(ops) == Handles(ops) /\ last'.ok

\* The turn pointer after the step is where the rotation from `cur` must put it.
TurnAdvancedFrom(cur) ==
    LET next == NextInSeatOrder(room_players', cur)
    IN  IF next = NoId
        THEN rooms'[1].round_over /\ rooms'[1].current_player_id = NoId
        ELSE rooms'[1].current_player_id = next /\ ~rooms'[1].round_over

(***************************************************************************)
(* C1 - conservation: once the deck of the session has been built (the     *)
(* room is locked by the first draw), the cards of the draw pile, the      *)
(* discard pile and all hands number as many as the expanded template.     *)
(***************************************************************************)
C1_Conservation ==
    (roomExists /\ room.locked) => CardsInPlay = TemplateCount

(***************************************************************************)
(* C2 - turn validity: a non-null current-turn pointer names a player who  *)
(* is active, not stayed and not busted.                                   *)
(***************************************************************************)
C2_TurnValidity ==
    (roomExists /\ room.current_player_id # NoId)
        => Eligible(room_players, room.current_player_id)

(***************************************************************************)
(* C3 - single pending action: the three pending columns are set and       *)
(* cleared together, and while a pending action is recorded a drawCard,    *)
(* stay or pass from any player changes no table.                          *)
(***************************************************************************)
PendingWellFormed(r) ==
    /\ (r.pending_action_type = NoText) = (r.pending_action_actor_id = NoId)
    /\ (r.pending_action_type = NoText) = (r.pending_action_value = NoText)

C3_Step ==
    /\ Len(rooms') > 0 => PendingWellFormed(rooms'[1])
    /\ (pendingRecorded /\ Handles({"drawCard", "stay", "pass"})) => UNCHANGED dbvars

C4_AdvanceTurnNextInSeatOrder ==
    [][Accepts({"stay", "pass"}) => TurnAdvancedFrom(room.current_player_id)]_vars

(***************************************************************************)
(* C5 - shuffle fidelity: the draw pile ensureDeck installs holds exactly  *)
(* the cards of the expanded card template.                                *)
(***************************************************************************)
C5_ShuffleFidelity ==
    last.op = "ensureDeck" => BagOf(draw_pile) = BagOf(expandTypes(card_types))

(***************************************************************************)
(* C7 - stray resolutions: a Second-Chance response or an action-target    *)
(* resolution that does not come from the recorded pending actor, or that  *)
(* finds no pending action of its kind, changes no table.                  *)
(***************************************************************************)
StraySecondChance ==
    /\ Handles({"secondChanceResponse"})
    /\ \/ ~last'.ok
       \/ room.pending_action_type # "SecondChancePrompt"
       \/ room.pending_action_actor_id # last'.pid

StrayActionTarget ==
    /\ Handles({"actionTarget"})
    /\ \/ ~last'.ok
       \/ room.pending_action_type \notin Actions
       \/ room.pending_action_actor_id # last'.pid

C7_StrayResolutionIgnored ==
    [][(roomExists /\ (StraySecondChance \/ StrayActionTarget)) => UNCHANGED dbvars]_vars

(***************************************************************************)
(* C8 - pause: while the room is paused every game command (drawCard,      *)
(* stay, pass, actionTarget, secondChanceResponse, endRound) changes no    *)
(* table.                                                                  *)
(***************************************************************************)
GameCommands ==
    {"drawCard", "stay", "pass", "actionTarget", "secondChanceResponse", "endRound"}

C8_PausedIgnoresGameCommands ==
    [][(roomExists /\ room.paused /\ Handles(GameCommands)) => UNCHANGED dbvars]_vars

(***************************************************************************)
(* C9 - bust advances the turn: the draw that busts the current actor      *)
(* (number card already held, no Second Chance held) leaves the pointer on *)
(* the next eligible player after the actor, or the round over.            *)
(***************************************************************************)
\* The step is an accepted draw whose top card is a number the drawer holds
\* while holding no Second Chance.
BustingDraw ==
    /\ Accepts({"drawCard"})
    /\ Len(draw_pile) > 0
    /\ ~isAction(Head(draw_pile))
    /\ Head(draw_pile) \in Range(player_hands[last'.pid])
    /\ "Second Chance" \notin Range(player_hands[last'.pid])

C9_BustAdvancesTurn == [][BustingDraw => TurnAdvancedFrom(last'.pid)]_vars

(***************************************************************************)
(* C10 - bust determinism: the busting draw sets stayed and busted and     *)
(* records no pending action; the busted flag stays until endRound, and    *)
(* endRound writes score 0 for every busted active player, whatever the    *)
(* hand.                                                                   *)
(***************************************************************************)
NewScoreRows == SubSeq(round_scores', Len(round_scores) + 1, Len(round_scores'))

C10_Step ==
    /\ BustingDraw =>
          /\ room_players'[last'.pid].stayed
          /\ room_players'[last'.pid].round_bust
          /\ rooms'[1].pending_action_type = NoText
    /\ \A p \in 1..Len(room_players) :
          (room_players[p].round_bust /\ ~Accepts({"endRound"}))
              => room_players'[p].round_bust
    /\ Accepts({"endRound"}) =>
          \A p \in 1..Len(room_players) :
              (room_players[p].active /\ room_players[p].round_bust) =>
                  /\ \E i \in 1..Len(NewScoreRows) : NewScoreRows[i].player_id = p
                  /\ \A i \in 1..Len(NewScoreRows) :
                         NewScoreRows[i].player_id = p => NewScoreRows[i].score = 0

runCommand(db, h) ==
    IF ~isMyTurn(db, h.pid) THEN {db}
    ELSE IF h.op = "drawCard" THEN drawCardForPlayer(db, h.pid)
    ELSE IF h.op = "stay" THEN {stayHandler(db, h.pid)}
    ELSE {passHandler(db)}

SerialOutcomes(db, h1, h2) ==
    UNION { runCommand(d, h2) : d \in runCommand(db, h1) }
    \cup UNION { runCommand(d, h1) : d \in runCommand(db, h2) }

BothHandled ==
    /\ Len(inflight.hs) = MaxInflight
    /\ \A i \in 1..Len(inflight.hs) : inflight.hs[i].pc = "done"

C6_OverlapIsSerializable ==
    BothHandled => DB \in SerialOutcomes(inflight.base, inflight.hs[1], inflight.hs[2])

(***************************************************************************)
(* C11 - accepting a Second Chance: when the pending actor answers "use"   *)
(* to a pending Second Chance prompt, one copy of the duplicate value and  *)
(* one Second Chance card leave the actor's hand and enter the discard     *)
(* pile, the actor is neither stayed nor busted, the pending record is     *)
(* cleared and the turn pointer names the actor.                           *)
(***************************************************************************)
\* The step is the pending actor's answer `answer` to a Second Chance prompt.
SecondChanceAnswer(answer) ==
    /\ Accepts({"secondChanceResponse"})
    /\ last'.arg = answer
    /\ room.pending_action_type = "SecondChancePrompt"
    /\ room.pending_action_actor_id = last'.pid

\* Bag b with one more copy of v.
BagPlus(b, v) == [b EXCEPT ![v] = @ + 1]

PendingCleared ==
    /\ rooms'[1].pending_action_type = NoText
    /\ rooms'[1].pending_action_actor_id = NoId
    /\ rooms'[1].pending_action_value = NoText

\* What the accept does to the cards and the pending record.
C11_CardsMove ==
    SecondChanceAnswer("use") =>
        LET p == last'.pid
            v == room.pending_action_value
        IN  /\ BagOf(player_hands[p]) = BagPlus(BagPlus(BagOf(player_hands'[p]), v), "Second Chance")
            /\ BagOf(discard_pile') = BagPlus(BagPlus(BagOf(discard_pile), v), "Second Chance")
            /\ \A q \in PlayerIds \ {p} : player_hands'[q] = player_hands[q]
            /\ PendingCleared
            /\ rooms'[1].current_player_id = p

C11_Step ==
    SecondChanceAnswer("use") =>
        /\ C11_CardsMove
        /\ ~room_players'[last'.pid].stayed
        /\ ~room_players'[last'.pid].round_bust

C11_AcceptSecondChance == [][C11_Step]_vars

(***************************************************************************)
(* C12 - declining a Second Chance: when the pending actor answers         *)
(* "decline", the actor is stayed and busted, the pending record is        *)
(* cleared, and the same command moves the turn to the next eligible       *)
(* player in seat order, or ends the round when there is none.             *)
(***************************************************************************)
C12_Step ==
    SecondChanceAnswer("decline") =>
        /\ room_players'[last'.pid].stayed
        /\ room_players'[last'.pid].round_bust
        /\ PendingCleared
        /\ TurnAdvancedFrom(last'.pid)

C12_DeclineAdvancesTurn == [][C12_Step]_vars

(***************************************************************************)
(* Resolutions of a pending action: the step is the actionTarget command   *)
(* of the pending actor, with the action that is pending, on a target that *)
(* has a seat.                                                             *)
(***************************************************************************)
Resolves(kind) ==
    /\ Accepts({"actionTarget"})
    /\ last'.arg = kind
    /\ room.pending_action_type = kind
    /\ room.pending_action_actor_id = last'.pid
    /\ last'.tgt \in 1..Len(room_players)

\* The actor's hand has lost one `card` and the discard pile has gained one.
CardDiscarded(actor, card) ==
    /\ BagOf(player_hands[actor]) = BagPlus(BagOf(player_hands'[actor]), card)
    /\ BagOf(discard_pile') = BagPlus(BagOf(discard_pile), card)

(***************************************************************************)
(* C13 - Take3: resolving a pending Take3 draws for the target through the *)
(* draw logic: with a non-empty draw pile at least one card is drawn, and  *)
(* with three cards available and no bust or nested pending action exactly *)
(* three cards leave the draw pile and enter the target's hand.            *)
(***************************************************************************)
C13_Step ==
    Resolves("Take3") =>
        LET t == last'.tgt
            own == IF t = last'.pid THEN 1 ELSE 0
        IN  /\ Len(draw_pile) > 0 => Len(draw_pile') < Len(draw_pile)
            /\ ( /\ Len(draw_pile) >= 3
                 /\ ~room_players'[t].round_bust
                 /\ rooms'[1].pending_action_type = NoText )
               => /\ Len(draw_pile') = Len(draw_pile) - 3
                  /\ Len(player_hands'[t]) = Len(player_hands[t]) + 3 - own

C13_Take3Draws == [][C13_Step]_vars

(***************************************************************************)
(* C14 - Swap: resolving a pending Swap on another player leaves the actor *)
(* with the target's former hand and the target with the actor's former    *)
(* hand less the Swap card, one Swap card going to the discard pile; on    *)
(* the actor themself only the Swap card moves, to the discard pile.       *)
(***************************************************************************)
C14_Step ==
    Resolves("Swap") =>
        LET a == last'.pid
            t == last'.tgt
        IN  IF t # a
            THEN /\ BagOf(player_hands'[a]) = BagOf(player_hands[t])
                 /\ BagOf(player_hands[a]) = BagPlus(BagOf(player_hands'[t]), "Swap")
                 /\ BagOf(discard_pile') = BagPlus(BagOf(discard_pile), "Swap")
            ELSE CardDiscarded(a, "Swap")

C14_SwapExchangesHands == [][C14_Step]_vars

(***************************************************************************)
(* C15 - Freeze: resolving a pending Freeze on target T sets T's stayed    *)
(* flag whatever T holds, moves one Freeze card from the actor's hand to   *)
(* the discard pile, changes no other hand and clears the pending record.  *)
(***************************************************************************)
C15_Step ==
    Resolves("Freeze") =>
        /\ room_players'[last'.tgt].stayed
        /\ CardDiscarded(last'.pid, "Freeze")
        /\ \A q \in PlayerIds \ {last'.pid} : player_hands'[q] = player_hands[q]
        /\ PendingCleared

C15_FreezeStaysTarget == [][C15_Step]_vars

\* A Freeze has just been resolved on another player, who holds no card.
C15_Witness ==
    /\ last.op = "actionTarget" /\ last.ok /\ last.arg = "Freeze"
    /\ last.tgt \in 1..Len(room_players) /\ last.tgt # last.pid
    /\ room_players[last.tgt].stayed
    /\ player_hands[last.tgt] = <<>>
    /\ discard_pile = <<"Freeze">>
    /\ room.pending_action_type = NoText

(***************************************************************************)
(* C16 - after the actor has resolved a pending Freeze, Swap or Take3, the *)
(* same command moves the turn to the next eligible player in seat order   *)
(* after the actor, or ends the round when nobody is eligible.             *)
(***************************************************************************)
C16_Step ==
    (\E kind \in Actions : Resolves(kind)) => TurnAdvancedFrom(last'.pid)

C16_ResolutionAdvancesTurn == [][C16_Step]_vars

(***************************************************************************)
(* C17 - a draw on an empty draw pile: with cards in the discard pile, the *)
(* discard pile becomes the draw pile and the card drawn comes from it,    *)
(* and no hand loses a card; with both piles empty no card is drawn and    *)
(* no hand, pile or player flag changes.                                   *)
(***************************************************************************)
C17_Step ==
    ( /\ Accepts({"drawCard"})
      /\ room.locked
      /\ Len(draw_pile) = 0 )
    => IF Len(discard_pile) > 0
       THEN /\ last'.arg # NoText
            /\ BagOf(discard_pile) = BagPlus(BagOf(draw_pile'), last'.arg)
            /\ \A q \in PlayerIds, v \in CardValues :
                   Count(player_hands'[q], v) >= Count(player_hands[q], v)
       ELSE /\ last'.arg = NoText
            /\ UNCHANGED <<player_hands, draw_pile, discard_pile, room_players>>

C17_DrawOnEmptyPile == [][C17_Step]_vars

(***************************************************************************)
(* C18 - the paused flag is TRUE exactly when some active player is not    *)
(* connected.                                                              *)
(***************************************************************************)
SomeoneDisconnected(rows) == \E i \in 1..Len(rows) : rows[i].active /\ ~rows[i].connected

C18_PausedIffDisconnected ==
    roomExists => (room.paused <=> SomeoneDisconnected(room_players))

(***************************************************************************)
(* C19 - removal recovers a paused session: when removePlayer has removed  *)
(* the last disconnected active player of a session paused by              *)
(* disconnection, the session is no longer paused.                         *)
(***************************************************************************)
C19_Step ==
    ( /\ Accepts({"removePlayer"})
      /\ room.paused
      /\ SomeoneDisconnected(room_players)
      /\ ~SomeoneDisconnected(room_players') )
    => ~rooms'[1].paused

C19_RemovalUnpauses == [][C19_Step]_vars

(***************************************************************************)
(* C20 - removing the player who holds the turn or the pending action      *)
(* never blocks the round: in an unpaused session whose round is not over  *)
(* and whose remaining active players are all connected, some active       *)
(* player's turn command or pending answer is accepted afterwards.         *)
(***************************************************************************)
DBnext ==
    [ rooms |-> rooms', room_players |-> room_players', draw_pile |-> draw_pile',
      discard_pile |-> discard_pile', player_hands |-> player_hands',
      round_scores |-> round_scores' ]

\* Player j can act: j holds the turn, or a pending action waits for j.
CanActNext(j) ==
    \/ isMyTurn(DBnext, j)
    \/ /\ rooms'[1].pending_action_type # NoText
       /\ rooms'[1].pending_action_actor_id = j

C20_Step ==
    ( /\ Accepts({"removePlayer"})
      /\ \E i \in 1..Len(room_players) :
             /\ room_players[i].active /\ ~room_players'[i].active
             /\ i \in {room.current_player_id, room.pending_action_actor_id}
      /\ ~rooms'[1].paused /\ ~rooms'[1].round_over
      /\ ~SomeoneDisconnected(room_players')
      /\ \E j \in 1..Len(room_players) : room_players'[j].active )
    => \E j \in 1..Len(room_players) : room_players'[j].active /\ CanActNext(j)

C20_RemovalNeverBlocksRound == [][C20_Step]_vars

(***************************************************************************)
(* C21 - endRound: the request is accepted only when the round is over and *)
(* changes nothing otherwise; when accepted the round number grows by one, *)
(* the round is no longer over, all hands are empty, no player is stayed   *)
(* or busted, no action is pending and the turn pointer names the new      *)
(* round starter.                                                          *)
(***************************************************************************)
SomeoneActive(rows) == \E i \in 1..Len(rows) : rows[i].active

\* What an accepted endRound leaves whether or not anybody can start.
RoundReset ==
    /\ rooms'[1].round_number = room.round_number + 1
    /\ player_hands' = emptyHands
    /\ \A i \in 1..Len(room_players') :
           ~room_players'[i].stayed /\ ~room_players'[i].round_bust
    /\ PendingCleared

\* The new round is open and its starter holds the turn.
RoundStarted ==
    /\ ~rooms'[1].round_over
    /\ rooms'[1].current_player_id # NoId
    /\ rooms'[1].current_player_id = rooms'[1].round_starter_id
    /\ room_players'[rooms'[1].current_player_id].active

C21_OriginalStep ==
    Handles({"endRound"}) =>
        IF last'.ok
        THEN room.round_over /\ RoundReset /\ RoundStarted
        ELSE UNCHANGED dbvars

\* The claim as stated.
C21_EndRoundAsStated == [][C21_OriginalStep]_vars

C21_Step ==
    Handles({"endRound"}) =>
        IF last'.ok
        THEN /\ room.round_over
             /\ RoundReset
             /\ IF SomeoneActive(room_players) THEN RoundStarted
                ELSE rooms'[1].round_over /\ rooms'[1].current_player_id = NoId
        ELSE UNCHANGED dbvars

\* The claim with the session without active players set apart: there the
\* round is over again at once and the pointer is null.
C21_EndRoundStartsNextRound == [][C21_Step]_vars

\* A second round has just been started, a player holding the turn.
C21_Witness ==
    /\ last.op = "endRound" /\ last.ok
    /\ room.round_number = 2
    /\ room.current_player_id # NoId
    /\ ~room.round_over

(***************************************************************************)
(* C22 - the round starter rotates: the player who holds the turn at the   *)
(* start of round n+1 is the active player seated next after the player    *)
(* who started round n, wrapping around, for the first round too.          *)
(***************************************************************************)
\* The first active seat after `cur`, wrapping around, `cur` itself last.
NextActiveAfter(rows, cur) ==
    LET n == Len(rows)
        seat(k) == ((cur - 1 + k) % n) + 1
        hits == {k \in 1..n : rows[seat(k)].active}
    IN  IF hits = {} THEN NoId
        ELSE seat(CHOOSE k \in hits : \A m \in hits : k <= m)

C22_Step ==
    (Accepts({"endRound"}) /\ starter # NoId /\ SomeoneActive(room_players))
    => rooms'[1].current_player_id = NextActiveAfter(room_players', starter)

C22_StarterRotates == [][C22_Step]_vars

(***************************************************************************)
(* C23 - score rows: there is at most one row per player and round, an     *)
(* accepted endRound writes one row for each player active at that moment  *)
(* and for nobody else, rows already written never change, and the total   *)
(* score of a player is the sum of that player's rows.                     *)
(***************************************************************************)
RowsOf(scores, pid, round) ==
    SelectSeq(scores, LAMBDA r : r.player_id = pid /\ r.round_number = round)

RECURSIVE SumOfScores(_, _)
SumOfScores(scores, pid) ==
    IF scores = <<>> THEN 0
    ELSE (IF Head(scores).player_id = pid THEN Head(scores).score ELSE 0)
         + SumOfScores(Tail(scores), pid)

C23_Inv ==
    /\ \A pid \in PlayerIds, round \in 1..MaxRounds : Len(RowsOf(round_scores, pid, round)) <= 1
    /\ \A i \in 1..Len(room_players) :
           room_players[i].total_score = SumOfScores(round_scores, i)

C23_Step ==
    /\ Len(round_scores') >= Len(round_scores)
    /\ SubSeq(round_scores', 1, Len(round_scores)) = round_scores
    /\ IF Accepts({"endRound"})
       THEN \A i \in 1..Len(room_players) :
                Len(RowsOf(round_scores', i, room.round_number))
                    = (IF room_players[i].active THEN 1 ELSE 0)
       ELSE round_scores' = round_scores

C23_ScoreRows == []C23_Inv /\ [][C23_Step]_vars

\* Two rounds have been completed and a player has scored in one of them.
C23_Witness ==
    /\ roomExists /\ room.round_number = 3
    /\ \E pid \in PlayerIds :
           /\ Len(RowsOf(round_scores, pid, 1)) = 1
           /\ Len(RowsOf(round_scores, pid, 2)) = 1
           /\ room_players[pid].total_score > 0

(***************************************************************************)
(* C24 - the round score of a player who is not busted: the sum of the     *)
(* number cards, doubled when a 2x is held, then plus 4 for a 4+, plus 5   *)
(* for a 5+, minus 6 for a 6- (each modifier once), plus 15 for a hand of  *)
(* six cards or more.                                                      *)
(***************************************************************************)
RECURSIVE NumberSum(_)
NumberSum(hand) ==
    IF hand = <<>> THEN 0
    ELSE (IF Head(hand) \in NumberCards THEN parseInt(Head(hand)) ELSE 0) + NumberSum(Tail(hand))

Held(hand, v) == v \in Range(hand)

HandScore(hand) ==
    NumberSum(hand) * (IF Held(hand, "2x") THEN 2 ELSE 1)
    + (IF Held(hand, "4+") THEN 4 ELSE 0)
    + (IF Held(hand, "5+") THEN 5 ELSE 0)
    - (IF Held(hand, "6-") THEN 6 ELSE 0)
    + (IF Len(hand) >= 6 THEN 15 ELSE 0)

C24_Step ==
    Accepts({"endRound"}) =>
        \A i \in 1..Len(room_players) :
            (room_players[i].active /\ ~room_players[i].round_bust)
            => \A k \in 1..Len(round_scores') :
                   ( /\ round_scores'[k].player_id = i
                     /\ round_scores'[k].round_number = room.round_number )
                   => round_scores'[k].score = HandScore(player_hands[i])

C24_RoundScoreFormula == [][C24_Step]_vars

(***************************************************************************)
(* C25 - join: a request whose name matches, ignoring case, an active      *)
(* connected player, or matches no active player while the session is      *)
(* locked, is rejected and changes nothing; a request whose name matches   *)
(* an active disconnected player adds no player and returns that player's  *)
(* id, seat, hand and score untouched.                                     *)
(***************************************************************************)
\* The active players called `name`, case ignored.
Namesakes(name) ==
    {i \in 1..Len(room_players) :
        room_players[i].active /\ Lower(room_players[i].name) = Lower(name)}

C25_Step ==
    Handles({"join"}) =>
        IF ~last'.ok THEN UNCHANGED dbvars
        ELSE IF Namesakes(last'.arg) # {}
        THEN /\ last'.pid \in Namesakes(last'.arg)
             /\ ~room_players[last'.pid].connected
             /\ UNCHANGED dbvars
        ELSE /\ ~roomExists \/ ~room.locked
             /\ Len(room_players') = Len(room_players) + 1
             /\ last'.pid = Len(room_players')

C25_JoinCollisions == [][C25_Step]_vars

\* A disconnected player of a locked session has just signed in again by name.
C25_Witness ==
    /\ last.op = "join" /\ last.ok
    /\ roomExists /\ room.locked
    /\ last.pid \in 1..Len(room_players)
    /\ room_players[last.pid].active /\ ~room_players[last.pid].connected
    /\ Len(player_hands[last.pid]) > 0

(***************************************************************************)
(* C26 - the lock: a session is unlocked until a draw first succeeds and   *)
(* locked ever after; once locked no new player is added, while an active  *)
(* disconnected player can still sign in again under the id they have.     *)
(***************************************************************************)
LockedNow == roomExists /\ room.locked

C26_Step ==
    /\ LockedNow => rooms'[1].locked /\ Len(room_players') = Len(room_players)
    /\ (~LockedNow /\ Len(rooms') > 0 /\ rooms'[1].locked)
       => Accepts({"drawCard"}) /\ last'.arg # NoText
    /\ (Accepts({"drawCard"}) /\ last'.arg # NoText) => rooms'[1].locked

\* While commands are still handled, the join of a disconnected active player
\* of a locked session can be accepted, with the id the player has.
C26_CanRejoin ==
    (LockedNow /\ steps < MaxSteps) =>
        \A i \in 1..Len(room_players) :
            (room_players[i].active /\ ~room_players[i].connected)
            => ENABLED (PlayerJoin(room_players[i].name) /\ last'.ok /\ last'.pid = i)

CardsUnchanged == UNCHANGED <<player_hands, draw_pile, discard_pile>>

C27_Step ==
    Handles({"stay"}) =>
        IF ~last'.ok THEN UNCHANGED dbvars
        ELSE LET a == last'.pid
             IN  /\ room.current_player_id = a
                 /\ room_players' = [room_players EXCEPT ![a].stayed = TRUE]
                 /\ CardsUnchanged
                 /\ IF \E j \in 1..Len(room_players') : Eligible(room_players', j)
                    THEN /\ Eligible(room_players', rooms'[1].current_player_id)
                         /\ ~rooms'[1].round_over
                    ELSE /\ rooms'[1].round_over
                         /\ rooms'[1].current_player_id = NoId

C28_Step ==
    Handles({"pass"}) =>
        IF ~last'.ok THEN UNCHANGED dbvars
        ELSE /\ room.current_player_id = last'.pid
             /\ UNCHANGED room_players
             /\ CardsUnchanged
             /\ TurnAdvancedFrom(last'.pid)

C28_PassEffect == [][C28_Step]_vars

(***************************************************************************)
(* C29 - a plain draw: when the current actor draws a number card whose    *)
(* value they do not hold, or a modifier card, that card moves from the    *)
(* top of the draw pile into the actor's hand and nothing else moves; the  *)
(* turn pointer, the player flags, the round-over flag and the pending     *)
(* record are unchanged.                                                   *)
(***************************************************************************)
\* The step is an accepted draw by the turn holder that popped a card.
Draws(card) == Accepts({"drawCard"}) /\ last'.arg = card

TurnUntouched ==
    /\ rooms'[1].current_player_id = room.current_player_id
    /\ rooms'[1].round_over = room.round_over
    /\ \A i \in 1..Len(room_players) :
           /\ room_players'[i].stayed = room_players[i].stayed
           /\ room_players'[i].round_bust = room_players[i].round_bust

PendingUntouched ==
    /\ rooms'[1].pending_action_type = room.pending_action_type
    /\ rooms'[1].pending_action_actor_id = room.pending_action_actor_id
    /\ rooms'[1].pending_action_value = room.pending_action_value

C29_Step ==
    \A card \in NumberCards \cup scoring :
        ( /\ Draws(card)
          /\ card \in scoring \/ card \notin Range(player_hands[last'.pid]) )
        => /\ player_hands' = [player_hands EXCEPT ![last'.pid] = Append(@, card)]
           /\ discard_pile' = discard_pile
           /\ Len(draw_pile) > 0 => card = Head(draw_pile) /\ draw_pile' = Tail(draw_pile)
           /\ TurnUntouched
           /\ PendingUntouched

C29_PlainDraw == [][C29_Step]_vars

(***************************************************************************)
(* C30 - a draw that opens a decision: drawing Freeze, Swap or Take 3 puts *)
(* the card in the actor's hand and records a pending action of that type  *)
(* for the actor; drawing a number the actor holds, while the actor holds  *)
(* a Second Chance, records a pending Second Chance decision of the actor  *)
(* with that value; the turn pointer and the player flags do not change.   *)
(***************************************************************************)
PendingIs(type, actor, value) ==
    /\ rooms'[1].pending_action_type = type
    /\ rooms'[1].pending_action_actor_id = actor
    /\ rooms'[1].pending_action_value = value

C30_Step ==
    /\ \A card \in {"Freeze", "Swap", "Take 3"} :
           Draws(card)
           => /\ Len(player_hands'[last'.pid]) > 0
              /\ player_hands'[last'.pid][Len(player_hands'[last'.pid])] = card
              /\ PendingIs(actionTypeOf(card), last'.pid, card)
              /\ TurnUntouched
    /\ \A card \in NumberCards :
           ( /\ Draws(card)
             /\ card \in Range(player_hands[last'.pid])
             /\ "Second Chance" \in Range(player_hands[last'.pid]) )
           => /\ PendingIs("SecondChancePrompt", last'.pid, card)
              /\ TurnUntouched

C30_DrawOpensDecision == [][C30_Step]_vars

(***************************************************************************)
(* Store failures. Every pool.query is its own transaction (no BEGIN /     *)
(* COMMIT anywhere) and every handler body sits in try { } catch (err)     *)
(* { console.error(...) }: a query that throws ends the handler and leaves *)
(* the writes made before it. Two failure points are followed: the first   *)
(* query after the DELETE of popTopCard, and the UPDATE of total_score     *)
(* after the first INSERT INTO round_scores of endRound.                   *)
(***************************************************************************)
DrawCardStoreFailure(playerId) ==
    /\ Handled
    /\ roomExists
    /\ isMyTurn(DB, playerId)
    /\ \E d \in ensureDeck(DB) :
         \E r \in popTopCard(updateRoom(d, [roomOf(d) EXCEPT !.locked = TRUE])) :
            /\ r.value # NoText
            /\ Install(r.db)
            /\ last' = Cmd("drawCard failed", playerId, r.value, NoId, FALSE)

EndRoundStoreFailure ==
    /\ Handled
    /\ roomExists
    /\ roomOf(DB).round_over
    /\ Len(activePlayers(DB)) > 0
    /\ LET p == activePlayers(DB)[1]
       IN  Install([DB EXCEPT !.round_scores =
                       Append(@, [player_id |-> p.player_id,
                                  round_number |-> roomOf(DB).round_number,
                                  score |-> roundScoreOf(DB, p)])])
    /\ last' = Cmd("endRound failed", NoId, NoText, NoId, FALSE)

FailNext ==
    \/ Next
    \/ \E playerId \in PlayerIds : DrawCardStoreFailure(playerId)
    \/ EndRoundStoreFailure

SpecFail == Init /\ [][FailNext]_vars

StoreFailed == last'.op \in {"drawCard failed", "endRound failed"}

\* C31: a command during which a store operation fails has no effect at all:
\* piles, hands, flags, scores, round number, pointer and pending record are
\* what they were before the command.
C31_Step == StoreFailed => UNCHANGED dbvars

C31_StoreFailureHasNoEffect == [][C31_Step]_vars

\* L equal number cards in consecutive places of the pile s.
HasRun(s, L) ==
    \E i \in 1..(Len(s) - L + 1) :
        ~isAction(s[i]) /\ \A j \in 1..(L - 1) : s[i + j] = s[i]

\* The catalogue holds at least L copies of some number card.
HasCopies(L) == \E v \in NumberCards : Count(expandTypes(card_types), v) >= L

\* C32: for each streak length L in {2, 3}, when the deck's number cards hold
\* at least L copies of some value, every deck hybridShuffle can return has L
\* equal number cards in consecutive places.
C32_ForcedStreak ==
    last.op = "ensureDeck" =>
        \A L \in {2, 3} : HasCopies(L) => HasRun(draw_pile, L)

SeatsDistinct ==
    \A i, j \in 1..Len(room_players) :
        i # j => room_players[i].order_index # room_players[j].order_index

SeatsKept ==
    /\ Len(room_players') >= Len(room_players)
    /\ \A i \in 1..Len(room_players) :
          /\ room_players'[i].player_id = room_players[i].player_id
          /\ room_players'[i].order_index = room_players[i].order_index

\* C33: a player's seat order is assigned once, when the player is created,
\* never changes afterwards (not on rejoin, removal of another player or round
\* change) and differs from the seat order of every other player of the session.
C33_SeatOrder == []SeatsDistinct /\ [][SeatsKept]_vars

\* A second round with two players or more, one of them removed.
C33_Witness ==
    /\ roomExists
    /\ room.round_number >= 2
    /\ Len(room_players) >= 2
    /\ \E i \in 1..Len(room_players) : ~room_players[i].active

\* The effects an actionTarget step can have, read off the tables.
FreezeApplied ==
    \E t \in 1..Len(room_players) : room_players'[t].stayed /\ ~room_players[t].stayed

SwapApplied ==
    LET a == last'.pid
        t == last'.tgt
    IN  /\ a # t
        /\ player_hands[a] # player_hands[t]
        /\ player_hands'[t] = player_hands[a]

Take3Applied == draw_pile' # draw_pile

\* C36: a pending action is resolved only by the event that matches its
\* recorded type: actionTarget applies the Freeze, Swap or Take3 effect only
\* when the recorded type is Freeze, Swap or Take3 respectively, whatever
\* action name the client sends, and never clears a Second-Chance prompt.
C36_Step ==
    (last'.op = "actionTarget" /\ last'.ok) =>
        /\ FreezeApplied => room.pending_action_type = "Freeze"
        /\ SwapApplied => room.pending_action_type = "Swap"
        /\ Take3Applied => room.pending_action_type = "Take3"
        /\ room.pending_action_type = "SecondChancePrompt"
              => room'.pending_action_type = "SecondChancePrompt"

C36_ResolutionMatchesType == [][C36_Step]_vars

\* C37: a player who is stayed or busted in the current round gains no card
\* through a drawCard request of their own: such a request leaves all hands
\* and both piles unchanged.
C37_Step ==
    (/\ last'.op = "drawCard"
     /\ last'.ok
     /\ hasRow(DB, last'.pid)
     /\ room_players[last'.pid].stayed \/ room_players[last'.pid].round_bust)
    => UNCHANGED <<player_hands, draw_pile, discard_pile>>

C37_DonePlayersDrawNothing == [][C37_Step]_vars

\* C38: whenever a pending action is recorded, its actor is the player the
\* turn pointer names, that actor is an active player, and the round is not over.
C38_PendingActorHoldsTurn ==
    pendingRecorded =>
        /\ room.pending_action_actor_id = room.current_player_id
        /\ hasRow(DB, room.pending_action_actor_id)
        /\ room_players[room.pending_action_actor_id].active
        /\ ~room.round_over

\* C39: Freeze, Swap and Take 3 cards are held only while their action is
\* open: when no pending action is recorded, no hand holds one of them.
C39_NoStrayInstantCards ==
    (roomExists /\ ~pendingRecorded) =>
        \A p \in PlayerIds : \A i \in 1..Len(player_hands[p]) :
            player_hands[p][i] \notin instant

\* C40: whenever the round is over, the turn pointer is null, no pending action
\* is recorded and every active player is stayed or busted, also after joins,
\* removals and reconnections made while the round is over.
C40_RoundOverShape ==
    (roomExists /\ room.round_over) =>
        /\ room.current_player_id = NoId
        /\ room.pending_action_type = NoText
        /\ \A i \in 1..Len(room_players) :
              room_players[i].active =>
                  room_players[i].stayed \/ room_players[i].round_bust

(***************************************************************************)
(* src/server.js - the server with validateTurn, findNextPlayer and the    *)
(* two-step action cards. Its tables have the columns of the tables above; *)
(* fisherYates .. hybridShuffle and ensureDeck are the same functions.     *)
(***************************************************************************)

\* The playerId a client can send: a player id, or null.
SentIds == 0..MaxPlayers

\* getActivePlayers(roomId): WHERE active = TRUE ORDER BY order_index ASC.
getActivePlayers(db) == SelectSeq(db.room_players, LAMBDA p : p.active)

\* The for-loop of findNextPlayer from step i on (idx is 0-based).
RECURSIVE findNextScan(_, _, _)
findNextScan(players, idx, i) ==
    IF i > Len(players) THEN NoId
    ELSE LET next == players[((idx + i) % Len(players)) + 1]
         IN  IF ~next.stayed /\ ~next.round_bust THEN next.player_id
             ELSE findNextScan(players, idx, i + 1)

\* A variant of findNextPlayer whose scan stops before the current player.
findNextPlayerSkippingCurrent(players, currentId) ==
    LET idx == IndexOf(playerIdsOf(players), currentId)
        others == { i \in 1..(Len(players) - 1) :
                      LET next == players[((idx + i) % Len(players)) + 1]
                      IN  ~next.stayed /\ ~next.round_bust }
    IN  IF Len(players) = 0 \/ idx = -1 \/ others = {} THEN NoId
        ELSE players[((idx + (CHOOSE i \in others : \A m \in others : i <= m))
                      % Len(players)) + 1].player_id

\* findNextPlayer(players, currentId); NoId is the `return null`.
findNextPlayer(players, currentId) ==
    LET idx == IndexOf(playerIdsOf(players), currentId)
    IN  IF Len(players) = 0 THEN NoId
        ELSE IF idx = -1 THEN NoId
        ELSE findNextScan(players, idx, 1)

\* advanceTurn(roomId) of src/server.js. players[0].player_id of an empty
\* list throws before any write.
advanceTurnServer(db) ==
    LET r == roomOf(db)
        players == getActivePlayers(db)
        next == findNextPlayer(players, r.current_player_id)
    IN  IF r.round_over THEN db
        ELSE IF r.current_player_id = NoId
        THEN IF r.round_starter_id # NoId
             THEN updateRoom(db, [r EXCEPT !.current_player_id = r.round_starter_id])
             ELSE IF Len(players) = 0 THEN db
             ELSE updateRoom(db, [r EXCEPT !.current_player_id = players[1].player_id])
        ELSE IF next = NoId
        THEN updateRoom(db, [r EXCEPT !.round_over = TRUE, !.current_player_id = NoId])
        ELSE updateRoom(db, [r EXCEPT !.current_player_id = next])

\* validateTurn(roomId, playerId).ok; null !== null is false, so a null
\* playerId passes while the pointer is NULL.
validateTurn(db, playerId) ==
    /\ ~roomOf(db).paused
    /\ ~roomOf(db).round_over
    /\ roomOf(db).current_player_id = playerId

\* popTopCard(roomId) of src/server.js: no reshuffle of the discard pile.
popTopCardServer(db) ==
    IF Len(db.draw_pile) = 0 THEN [db |-> db, value |-> NoText]
    ELSE [db |-> [db EXCEPT !.draw_pile = Tail(@)], value |-> Head(db.draw_pile)]

\* removeFromHand(roomId, playerId, value) of src/server.js: ORDER BY position
\* ASC LIMIT 1, the earliest instance.
removeFromHandServer(db, playerId, value) ==
    IF playerId \in PlayerIds /\ value \in Range(db.player_hands[playerId])
    THEN [db EXCEPT !.player_hands[playerId] = RemoveAt(@, FirstIndex(@, value))]
    ELSE db

\* POST /create-room: the room row, then ensureDeck.
CreateRoom ==
    /\ Handled
    /\ ~roomExists
    /\ \E db \in ensureDeck([DB EXCEPT !.rooms = <<newRoom>>]) : Install(db)
    /\ last' = Cmd("create-room", NoId, NoText, NoId, TRUE)

\* POST /join-room: player_id = COUNT(active) + 1, order_index = player_id - 1,
\* connected DEFAULT TRUE.
JoinRoomServer(name) ==
    /\ Handled
    /\ IF ~roomExists \/ roomOf(DB).locked
       THEN Reject("join-room")
       ELSE /\ Len(room_players) < MaxPlayers
            /\ name = People[Len(room_players) + 1]
            /\ LET n == Len(getActivePlayers(DB))
               IN  /\ Install([DB EXCEPT !.room_players = Append(@,
                          [ player_id |-> n + 1, name |-> name, order_index |-> n,
                            active |-> TRUE, stayed |-> FALSE, total_score |-> 0,
                            socket_id |-> NoId, connected |-> TRUE,
                            round_bust |-> FALSE ])])
                   /\ last' = Cmd("join-room", n + 1, name, NoId, TRUE)

\* socket.on("drawFromDeck"). addToHand with a null playerId violates NOT NULL
\* of player_hands.player_id: the handler throws after the card was deleted.
DrawFromDeck(playerId) ==
    /\ Handled
    /\ IF ~roomExists \/ ~validateTurn(DB, playerId)
       THEN Reject("drawFromDeck")
       ELSE LET r == popTopCardServer(DB)
            IN  /\ Install(IF r.value = NoText \/ playerId = NoId THEN r.db
                           ELSE addToHand(r.db, playerId, r.value))
                /\ last' = Cmd("drawFromDeck", playerId, r.value, NoId, TRUE)

\* socket.on("endTurn")
EndTurn(playerId) ==
    /\ Handled
    /\ IF ~roomExists \/ ~validateTurn(DB, playerId)
       THEN Reject("endTurn")
       ELSE /\ Install(advanceTurnServer(DB))
            /\ last' = Cmd("endTurn", playerId, NoText, NoId, TRUE)

ActionValues == {"Swap", "Freeze", "Second Chance"}

\* socket.on("playActionCard")
PlayActionCard(playerId, value) ==
    /\ Handled
    /\ IF ~roomExists \/ ~validateTurn(DB, playerId)
       THEN Reject("playActionCard")
       ELSE LET removed == removeFromHandServer(DB, playerId, value)
            IN  /\ Install(IF value = "Swap"
                           THEN setPending(removed, "swap_select_target", playerId, value)
                           ELSE IF value = "Freeze"
                           THEN setPending(removed, "freeze_select_target", playerId, value)
                           ELSE removed)
                /\ last' = Cmd("playActionCard", playerId, value, NoId, TRUE)

\* socket.on("cancelPendingAction"): only the actor test, then clearPending.
CancelPendingAction(playerId) ==
    /\ Handled
    /\ IF ~roomExists \/ roomOf(DB).pending_action_actor_id # playerId
       THEN Reject("cancelPendingAction")
       ELSE /\ Install(clearPending(DB))
            /\ last' = Cmd("cancelPendingAction", playerId, NoText, NoId, TRUE)

ServerNext ==
    \/ CreateRoom
    \/ \E name \in Range(People) : JoinRoomServer(name)
    \/ \E playerId \in SentIds : DrawFromDeck(playerId)
    \/ \E playerId \in SentIds : EndTurn(playerId)
    \/ \E playerId \in SentIds, value \in ActionValues : PlayActionCard(playerId, value)
    \/ \E playerId \in SentIds : CancelPendingAction(playerId)

SpecServer == Init /\ [][ServerNext]_vars

\* C35: while a pending action is recorded, drawFromDeck, endTurn and
\* playActionCard requests are rejected and change no hand, pile, pointer or
\* pending field, also when the current player sends them.
C35_Step ==
    (/\ roomExists
     /\ room.pending_action_type # NoText
     /\ Handles({"drawFromDeck", "endTurn", "playActionCard"}))
    => /\ ~last'.ok
       /\ UNCHANGED <<player_hands, draw_pile, discard_pile, rooms>>

C35_PendingBlocksTurnRequests == [][C35_Step]_vars

(***************************************************************************)
(* findNextPlayer and advanceTurn of src/server.js on their own: the rooms *)
(* an endTurn request can meet. Players sit in join order (player_id i at  *)
(* order_index i - 1, none removed: no statement clears `active`), their   *)
(* stayed and round_bust flags are any, the pointer names one of them or   *)
(* is NULL.                                                                *)
(***************************************************************************)
SeatedPlayers(n) ==
    { [i \in 1..n |->
          [ player_id |-> i, name |-> People[i], order_index |-> i - 1, active |-> TRUE,
            stayed |-> f[i][1], total_score |-> 0, socket_id |-> NoId,
            connected |-> TRUE, round_bust |-> f[i][2] ]]
      : f \in [1..n -> BOOLEAN \X BOOLEAN] }

TurnInit ==
    /\ card_types \in Catalogues
    /\ \E n \in 1..Len(People) :
          /\ room_players \in SeatedPlayers(n)
          /\ \E c \in 0..n : rooms = <<[newRoom EXCEPT !.current_player_id = c]>>
    /\ draw_pile = <<>>
    /\ discard_pile = <<>>
    /\ player_hands = emptyHands
    /\ round_scores = <<>>
    /\ last = Cmd("start", NoId, NoText, NoId, TRUE)
    /\ steps = 0
    /\ inflight = <<>>
    /\ starter = NoId

TurnNext == \E playerId \in SentIds : EndTurn(playerId)

SpecTurn == TurnInit /\ [][TurnNext]_vars

\* findNextPlayer returns what the scan of the seat order from the seat after
\* the current player, wrapping and trying the current player last, finds.
FindNextAsStated ==
    (roomExists /\ room.current_player_id # NoId) =>
        findNextPlayer(getActivePlayers(DB), room.current_player_id)
            = NextInSeatOrder(room_players, room.current_player_id)

\* C34: findNextPlayer(players, currentId) returns the first player with
\* stayed = false and round_bust = false found scanning the seat-ordered
\* active list from the seat after currentId, wrapping around, currentId tried
\* last; it returns null, and advanceTurn then sets round_over and clears the
\* pointer, exactly when no listed player is eligible.
C34_Step ==
    (last'.op = "endTurn" /\ last'.ok /\ room.current_player_id # NoId)
        => TurnAdvancedFrom(room.current_player_id)

C34_FindNextPlayer == []FindNextAsStated /\ [][C34_Step]_vars

\* An endTurn found nobody eligible among two players or more and ended the round.
C34_Witness ==
    /\ last.op = "endTurn"
    /\ last.ok
    /\ Len(room_players) >= 2
    /\ room.round_over
    /\ room.current_player_id = NoId

====
